---- MODULE Spec2Model ----
(***************************************************************************)
(* Model of feed_txt_to_InfluxDBv1_v1.py: the tailing loop process_files,  *)
(* the line parser process_line, Sender.send, the directory helpers        *)
(* list_txt_files / find_next_file and the exit handling of main, together *)
(* with the directory of *.txt files that other programs create, append to *)
(* and remove while the script runs.                                       *)
(*                                                                         *)
(* A line of text is the sequence of its comma separated fields (what      *)
(* line.split(',') returns after line.strip()); a field is a string.       *)
(***************************************************************************)
EXTENDS Integers, Sequences, FiniteSets, TLC

(***************************************************************************)
(* Bounds of the model.                                                    *)
(***************************************************************************)
\* number of changes other programs make to the directory during a run
MaxEvents == 2
\* number of lines the start file holds when the script starts
MaxInit == 1
\* the same, for a start file that holds only well-formed and foreign lines
MaxBacklog == 4
\* the count of sleeps in a quiet directory stops here
MaxQuiet == 3

(***************************************************************************)
(* Configuration constants and the files of the directory.                 *)
(***************************************************************************)
MEASUREMENT == "mydatameasurement"
expected_len == 2 + 15 + 1

Files == {"a.txt", "b.txt", "c.txt"}
start_file == "a.txt"
NoFile == "none"
\* value of exit_status while the script runs
Running == -1

(***************************************************************************)
(* The lines that occur in the files.                                      *)
(***************************************************************************)
Payload == <<"1", "2", "3", "4", "5", "6", "7", "8", "9", "10", "11", "12", "13", "14", "15">>
LGood == <<MEASUREMENT, "host1">> \o Payload \o <<"2025-06-09T21:58:12Z">>
LShort == <<MEASUREMENT, "host1">> \o SubSeq(Payload, 1, 14) \o <<"2025-06-09T21:58:12Z">>
LLong == <<MEASUREMENT, "host1">> \o Payload \o <<"16", "2025-06-09T21:58:12Z">>
LBadTs == <<MEASUREMENT, "host1">> \o Payload \o <<"2025-02-30T21:58:12Z">>
LOther == <<"# started">>
\* two more well-formed lines: another host, other values, other times
PayloadB == <<"20.5", "21.5", "22.5", "23.5", "0.1", "0.2", "0.3", "0.4", "-7", "1e3", "55", "3.30", "3.31", "3.32", "3.33">>
LLeap == <<MEASUREMENT, "host2">> \o PayloadB \o <<"2024-02-29T23:59:59Z">>
LEpoch == <<MEASUREMENT, "host1">> \o Payload \o <<"1970-01-01T00:00:00Z">>
WellFormedLines == {LGood, LLeap, LEpoch}
Lines == {LGood, LShort, LLong, LBadTs, LOther}

\* line.startswith(MEASUREMENT): the text before the first comma is the
\* first field, and of the first fields that occur only MEASUREMENT itself
\* begins with the marker
StartsWithMeasurement(line) == Len(line) > 0 /\ line[1] = MEASUREMENT

(***************************************************************************)
(* iso_z_to_ns: time.strptime with "%Y-%m-%dT%H:%M:%SZ", then              *)
(* calendar.timegm, then * 1_000_000_000.                                  *)
(***************************************************************************)
\* the six numbers the format's directives match in the text; <<>> when the
\* text does not have the shape of the format
ScanIsoZ(text) ==
    CASE text = "2025-06-09T21:58:12Z" -> <<2025, 6, 9, 21, 58, 12>>
      [] text = "2025-02-30T21:58:12Z" -> <<2025, 2, 30, 21, 58, 12>>
      [] text = "2024-02-29T23:59:59Z" -> <<2024, 2, 29, 23, 59, 59>>
      [] text = "1970-01-01T00:00:00Z" -> <<1970, 1, 1, 0, 0, 0>>
      [] OTHER -> <<>>

IsLeap(y) == (y % 4 = 0) /\ ((y % 100 # 0) \/ (y % 400 = 0))

DaysInMonth(y, m) ==
    IF m = 2 THEN (IF IsLeap(y) THEN 29 ELSE 28)
    ELSE IF m \in {4, 6, 9, 11} THEN 30 ELSE 31

\* time.strptime raises ValueError unless the numbers are in the ranges of
\* the directives and the day exists in the month
StrptimeOk(text) ==
    LET t == ScanIsoZ(text) IN
      /\ Len(t) = 6
      /\ t[1] \in 1..9999
      /\ t[2] \in 1..12
      /\ t[3] \in 1..31
      /\ t[4] \in 0..23
      /\ t[5] \in 0..59
      /\ t[6] \in 0..61
      /\ t[3] <= DaysInMonth(t[1], t[2])

\* days from 1970-01-01 to the first day of year y
DaysBeforeYear(y) ==
    LET n == y - 1 IN (365 * n + (n \div 4) - (n \div 100) + (n \div 400)) - 719162

RECURSIVE DaysBeforeMonth(_, _)
DaysBeforeMonth(y, m) ==
    IF m <= 1 THEN 0 ELSE DaysBeforeMonth(y, m - 1) + DaysInMonth(y, m - 1)

\* calendar.timegm: seconds since the epoch, UTC
timegm(t) ==
    LET days == DaysBeforeYear(t[1]) + DaysBeforeMonth(t[1], t[2]) + t[3] - 1
    IN  ((days * 24 + t[4]) * 60 + t[5]) * 60 + t[6]

\* the decimal text of seconds * 1_000_000_000
iso_z_to_ns(iso_z) ==
    LET s == timegm(ScanIsoZ(iso_z)) IN
      IF s = 0 THEN "0" ELSE ToString(s) \o "000000000"


(***************************************************************************)
(* The line-protocol string process_line builds.                           *)
(***************************************************************************)
FieldNames == <<"T1", "T2", "T3", "T4", "Pwr1", "Pwr2", "Pwr3", "Pwr4", "LEDamp", "LEDwidth", "Threshold", "V1", "V2", "V3", "V4">>

\* fields that take name k from parts[k + 1], the host under T1
RECURSIVE FieldsText_FromHost(_, _)
FieldsText_FromHost(parts, k) ==
    IF k > Len(FieldNames) THEN ""
    ELSE (IF k > 1 THEN "," ELSE "") \o FieldNames[k] \o "=" \o parts[k + 1]
         \o FieldsText_FromHost(parts, k + 1)

\* "T1={t1},T2={t2},...": name k takes parts[k + 2]
RECURSIVE FieldsText(_, _)
FieldsText(parts, k) ==
    IF k > Len(FieldNames) THEN ""
    ELSE (IF k > 1 THEN "," ELSE "") \o FieldNames[k] \o "=" \o parts[k + 2]
         \o FieldsText(parts, k + 1)

LineProtocol(parts) ==
    MEASUREMENT \o "," \o "host=" \o parts[2] \o " " \o FieldsText(parts, 1)
    \o " " \o iso_z_to_ns(parts[Len(parts)])

(***************************************************************************)
(* The directory helpers.                                                  *)
(***************************************************************************)
\* sorted(..., key=mtime): the sequence of the files of S, oldest first (no
\* two files of the directory have the same mtime)
RECURSIVE SortByMtime(_, _)
SortByMtime(S, mt) ==
    IF S = {} THEN <<>>
    ELSE LET p == CHOOSE q \in S : \A r \in S : mt[q] <= mt[r]
         IN  <<p>> \o SortByMtime(S \ {p}, mt)

list_txt_files(globbed_paths, mt) == SortByMtime(globbed_paths, mt)

\* files.index(current); 0 stands for ValueError
IndexOf(current, files) ==
    IF \E i \in 1..Len(files) : files[i] = current
    THEN CHOOSE i \in 1..Len(files) : files[i] = current /\ \A j \in 1..(i - 1) : files[j] # current
    ELSE 0

\* find_next_file that returns None when current is not in files
find_next_file_NoneWhenAbsent(current, files) ==
    LET idx == IndexOf(current, files) IN
      IF idx = 0 THEN NoFile
      ELSE IF idx + 1 <= Len(files) THEN files[idx + 1] ELSE NoFile

\* find_next_file that returns the newest file of the listing
find_next_file_Newest(current, files) ==
    IF Len(files) > 0 /\ files[Len(files)] # current THEN files[Len(files)] ELSE NoFile

find_next_file(current, files) ==
    LET idx == IndexOf(current, files) IN
      IF idx = 0 THEN (IF Len(files) > 0 THEN files[Len(files)] ELSE NoFile)
      ELSE IF idx + 1 <= Len(files) THEN files[idx + 1] ELSE NoFile

(***************************************************************************)
(* State.                                                                  *)
(***************************************************************************)
VARIABLES
    listed,        \* the *.txt files the directory holds now
    mtime,         \* st_mtime of each file
    content,       \* the lines of each file
    clock,         \* number of changes made to the directory so far
    pc,            \* where process_files / main stands
    current,       \* process_files: current
    fopen,         \* the file the handle f is open on, NoFile when closed
    fpos,          \* number of lines read from current through f
    line_number,   \* process_files: line_number
    line,          \* the line process_line was called with, while it is sending
    line_protocol, \* the argument of the sender.send in progress
    globbed,       \* list_txt_files: what directory.glob returned
    logf,          \* the entries appended to LOG_FILE
    sends,         \* the calls of subprocess.run made by Sender.send
    exit_status,   \* status of sys.exit, Running before
    passed,        \* history: the <<file, line number>> process_line was called with
    quiet          \* history: sleeps executed since the directory last changed

vars == <<listed, mtime, content, clock, pc, current, fopen, fpos, line_number,
          line, line_protocol, globbed, logf, sends, exit_status, passed, quiet>>

dirVars == <<listed, mtime, content, clock>>
engineVars == <<pc, current, fopen, fpos, line_number, line, line_protocol,
                globbed, logf, sends, exit_status, passed>>

\* one entry of the log file: log(f"[{tag}] {msg} {n} : {line}")
Entry(tag, msg, n, l) == [tag |-> tag, msg |-> msg, n |-> n, line |-> l]

\* the sequences over S of length at most n
RECURSIVE SeqsUpTo(_, _)
SeqsUpTo(S, n) ==
    IF n = 0 THEN {<<>>}
    ELSE LET shorter == SeqsUpTo(S, n - 1)
         IN  shorter \cup {Append(q, x) : q \in {r \in shorter : Len(r) = n - 1}, x \in S}

\* main has found start_file to be a regular file and calls process_files
InitWith(contents) ==
    /\ listed = [p \in Files |-> p = start_file]
    /\ mtime = [p \in Files |-> 0]
    /\ content \in {[p \in Files |-> IF p = start_file THEN c ELSE <<>>] : c \in contents}
    /\ clock = 0
    /\ pc = "open"
    /\ current = start_file
    /\ fopen = NoFile
    /\ fpos = 0
    /\ line_number = 0
    /\ line = <<>>
    /\ line_protocol = ""
    /\ globbed = {}
    /\ logf = <<>>
    /\ sends = <<>>
    /\ exit_status = Running
    /\ passed = {}
    /\ quiet = 0

Init == InitWith(SeqsUpTo(Lines, MaxInit))

\* a start file with a backlog of well-formed and foreign lines
InitBacklog == InitWith(SeqsUpTo({LOther, LGood}, MaxBacklog))

\* a start file of two well-formed lines, equal or different
InitParse == InitWith({<<l, m>> : l \in WellFormedLines, m \in WellFormedLines})

\* process_files stands before the sort of list_txt_files (line 206), after a
\* sleep, in a directory of empty files that holds any of the files in any
\* order of age, the current file among them or moved away; the directory
\* changes once more at most
InitFind ==
    /\ listed \in [Files -> BOOLEAN]
    /\ mtime \in {m \in [Files -> {-2, -1, 0}] : \A p, q \in Files : p # q => m[p] # m[q]}
    /\ content = [p \in Files |-> <<>>]
    /\ clock = MaxEvents - 1
    /\ pc = "sort"
    /\ current \in Files
    /\ fopen = current
    /\ fpos = 0
    /\ line_number = 0
    /\ line = <<>>
    /\ line_protocol = ""
    /\ globbed = {p \in Files : listed[p]}
    /\ logf = <<Entry("OPEN", current, 0, <<>>)>>
    /\ sends = <<>>
    /\ exit_status = Running
    /\ passed = {}
    /\ quiet = 1

(***************************************************************************)
(* Other programs: they create files, append lines and remove files.       *)
(***************************************************************************)
CreateFile(p) ==
    /\ pc # "done"
    /\ clock < MaxEvents
    /\ ~listed[p]
    /\ listed' = [listed EXCEPT ![p] = TRUE]
    /\ mtime' = [mtime EXCEPT ![p] = clock + 1]
    /\ clock' = clock + 1
    /\ quiet' = 0
    /\ UNCHANGED <<content, engineVars>>

AppendLine(p, l) ==
    /\ pc # "done"
    /\ clock < MaxEvents
    /\ listed[p]
    /\ content' = [content EXCEPT ![p] = Append(@, l)]
    /\ mtime' = [mtime EXCEPT ![p] = clock + 1]
    /\ clock' = clock + 1
    /\ quiet' = 0
    /\ UNCHANGED <<listed, engineVars>>

\* the file leaves the directory (it is moved away): an open handle still
\* reads it, and CreateFile brings it back
RemoveFile(p) ==
    /\ pc # "done"
    /\ clock < MaxEvents
    /\ listed[p]
    /\ listed' = [listed EXCEPT ![p] = FALSE]
    /\ clock' = clock + 1
    /\ quiet' = 0
    /\ UNCHANGED <<mtime, content, engineVars>>

(***************************************************************************)
(* main: the exits.                                                        *)
(***************************************************************************)
\* an exception e leaves process_files (the with statement closes f) and
\* main logs [FATAL] and exits with status 1; entries are logged before it
Fatal(e, entries) ==
    /\ logf' = logf \o entries \o <<Entry("FATAL", e, 0, <<>>)>>
    /\ exit_status' = 1
    /\ fopen' = NoFile
    /\ pc' = "done"

\* KeyboardInterrupt is not an Exception: no handler of Sender.send or of
\* process_line runs, main logs [INFO] and exits with status 0
Interrupt ==
    /\ pc # "done"
    /\ logf' = Append(logf, Entry("INFO", "Interrupted by user.", 0, <<>>))
    /\ sends' = IF pc = "send"
                  THEN Append(sends, [lp |-> line_protocol, result |-> "KeyboardInterrupt"])
                  ELSE sends
    /\ exit_status' = 0
    /\ fopen' = NoFile
    /\ pc' = "done"
    /\ UNCHANGED <<dirVars, current, fpos, line_number, line, line_protocol, globbed,
                   passed, quiet>>

(***************************************************************************)
(* process_files.                                                          *)
(***************************************************************************)
\* OpenFile without line 181: the line numbers run on from the file before
OpenFile_NumberKept ==
    /\ pc = "open"
    /\ IF listed[current]
         THEN /\ fopen' = current
              /\ fpos' = 0
              /\ logf' = Append(logf, Entry("OPEN", current, 0, <<>>))
              /\ pc' = "read"
              /\ UNCHANGED <<exit_status, line_number>>
         ELSE /\ Fatal("FileNotFoundError: open", <<>>)
              /\ UNCHANGED <<fpos, line_number>>
    /\ UNCHANGED <<dirVars, current, line, line_protocol, globbed, sends, passed, quiet>>

\* with current.open(...) as f: log [OPEN], line_number = 0
OpenFile ==
    /\ pc = "open"
    /\ IF listed[current]
         THEN /\ fopen' = current
              /\ fpos' = 0
              /\ line_number' = 0
              /\ logf' = Append(logf, Entry("OPEN", current, 0, <<>>))
              /\ pc' = "read"
              /\ UNCHANGED exit_status
         ELSE /\ Fatal("FileNotFoundError: open", <<>>)
              /\ UNCHANGED <<fpos, line_number>>
    /\ UNCHANGED <<dirVars, current, line, line_protocol, globbed, sends, passed, quiet>>

\* process_line with a timestamp that does not parse treated as a skip
process_line_BadTsSkipped(l, n) ==
    IF Len(l) # expected_len \/ ~StrptimeOk(l[Len(l)])
      THEN /\ logf' = Append(logf, Entry("SKIP", "Unexpected 'expected_len'", n, l))
           /\ pc' = "read"
           /\ UNCHANGED <<fopen, line, line_protocol, exit_status>>
      ELSE /\ line' = l
           /\ line_protocol' = LineProtocol(l)
           /\ pc' = "send"
           /\ UNCHANGED <<fopen, logf, exit_status>>

\* process_line with the return of line 126 replaced by a raise
process_line_CountRaises(l, n) ==
    IF Len(l) # expected_len \/ ~StrptimeOk(l[Len(l)])
      THEN /\ Fatal("ValueError", <<Entry("ERROR", "Parse failed | Reason: ValueError", n, l)>>)
           /\ UNCHANGED <<line, line_protocol>>
      ELSE /\ line' = l
           /\ line_protocol' = LineProtocol(l)
           /\ pc' = "send"
           /\ UNCHANGED <<fopen, logf, exit_status>>

\* process_line up to the call of sender.send
process_line(l, n) ==
    IF Len(l) # expected_len
      THEN /\ logf' = Append(logf, Entry("SKIP", "Unexpected 'expected_len'", n, l))
           /\ pc' = "read"
           /\ UNCHANGED <<fopen, line, line_protocol, exit_status>>
      ELSE IF ~StrptimeOk(l[Len(l)])
        THEN /\ Fatal("ValueError", <<Entry("ERROR", "Parse failed | Reason: ValueError", n, l)>>)
             /\ UNCHANGED <<line, line_protocol>>
        ELSE /\ line' = l
             /\ line_protocol' = LineProtocol(l)
             /\ pc' = "send"
             /\ UNCHANGED <<fopen, logf, exit_status>>

\* line = f.readline() and the statements up to the continue; fall is where
\* control goes when the continue is not reached
ReadLine(fall) ==
    /\ IF fpos < Len(content[fopen])
         THEN LET l == content[fopen][fpos + 1] IN
                /\ fpos' = fpos + 1
                /\ line_number' = line_number + 1
                /\ IF StartsWithMeasurement(l)
                     THEN /\ process_line(l, line_number + 1)
                          /\ passed' = passed \cup {<<fopen, fpos + 1>>}
                     ELSE /\ pc' = fall
                          /\ UNCHANGED <<fopen, line, line_protocol, logf, exit_status, passed>>
         ELSE /\ pc' = fall
              /\ UNCHANGED <<fopen, fpos, line_number, line, line_protocol, logf,
                             exit_status, passed>>
    /\ UNCHANGED <<dirVars, current, globbed, sends, quiet>>

\* lines 185-191
Read ==
    /\ pc = "read"
    /\ ReadLine("sleep")

\* line 194
Sleep ==
    /\ pc = "sleep"
    /\ pc' = "reread"
    /\ quiet' = IF quiet < MaxQuiet THEN quiet + 1 ELSE quiet
    /\ UNCHANGED <<dirVars, current, fopen, fpos, line_number, line, line_protocol,
                   globbed, logf, sends, exit_status, passed>>

\* lines 197-203
Reread ==
    /\ pc = "reread"
    /\ ReadLine("scan")

\* list_txt_files: directory.glob("*.txt")
Glob ==
    /\ pc = "scan"
    /\ globbed' = {p \in Files : listed[p]}
    /\ pc' = "sort"
    /\ UNCHANGED <<dirVars, current, fopen, fpos, line_number, line, line_protocol,
                   logf, sends, exit_status, passed, quiet>>

\* Rotate that leaves the with block of the old file open when it switches
Rotate_HandleKept ==
    /\ pc = "sort"
    /\ globbed' = {}
    /\ IF \E p \in globbed : ~listed[p]
         THEN /\ Fatal("FileNotFoundError: stat", <<>>)
              /\ UNCHANGED <<current, fpos>>
         ELSE LET newer == find_next_file(current, list_txt_files(globbed, mtime)) IN
                IF newer # NoFile
                  THEN /\ current' = newer
                       /\ fpos' = 0
                       /\ pc' = "open"
                       /\ UNCHANGED <<fopen, logf, exit_status>>
                  ELSE /\ pc' = "read"
                       /\ UNCHANGED <<current, fopen, fpos, logf, exit_status>>
    /\ UNCHANGED <<dirVars, line_number, line, line_protocol, sends, passed, quiet>>

\* Rotate that lists the directory again at once when there is no newer file
Rotate_BusyPoll ==
    /\ pc = "sort"
    /\ globbed' = {}
    /\ IF \E p \in globbed : ~listed[p]
         THEN /\ Fatal("FileNotFoundError: stat", <<>>)
              /\ UNCHANGED <<current, fpos>>
         ELSE LET newer == find_next_file(current, list_txt_files(globbed, mtime)) IN
                IF newer # NoFile
                  THEN /\ current' = newer
                       /\ fopen' = NoFile
                       /\ fpos' = 0
                       /\ pc' = "open"
                       /\ UNCHANGED <<logf, exit_status>>
                  ELSE /\ pc' = "scan"
                       /\ UNCHANGED <<current, fopen, fpos, logf, exit_status>>
    /\ UNCHANGED <<dirVars, line_number, line, line_protocol, sends, passed, quiet>>

\* list_txt_files: sorted by p.stat().st_mtime, then find_next_file and
\* lines 207-210
Rotate ==
    /\ pc = "sort"
    /\ globbed' = {}
    /\ IF \E p \in globbed : ~listed[p]
         THEN /\ Fatal("FileNotFoundError: stat", <<>>)
              /\ UNCHANGED <<current, fpos>>
         ELSE LET newer == find_next_file(current, list_txt_files(globbed, mtime)) IN
                IF newer # NoFile
                  THEN /\ current' = newer
                       /\ fopen' = NoFile
                       /\ fpos' = 0
                       /\ pc' = "open"
                       /\ UNCHANGED <<logf, exit_status>>
                  ELSE /\ pc' = "read"
                       /\ UNCHANGED <<current, fopen, fpos, logf, exit_status>>
    /\ UNCHANGED <<dirVars, line_number, line, line_protocol, sends, passed, quiet>>

(***************************************************************************)
(* Sender.send and the rest of process_line.                               *)
(***************************************************************************)
SendFailures == {"CalledProcessError", "TimeoutExpired", "FileNotFoundError"}

CurlMessage(e) ==
    CASE e = "CalledProcessError" -> "curl exited with code"
      [] e = "TimeoutExpired" -> "curl timeout after 10s"
      [] e = "FileNotFoundError" -> "curl not found on PATH"
      [] OTHER -> "Unexpected error during curl"

\* subprocess.run returned: process_line logs [PARSED], the loop continues
SendOk ==
    /\ pc = "send"
    /\ sends' = Append(sends, [lp |-> line_protocol, result |-> "ok"])
    /\ logf' = Append(logf, Entry("PARSED", "", line_number, line))
    /\ line' = <<>>
    /\ line_protocol' = ""
    /\ pc' = "read"
    /\ UNCHANGED <<dirVars, current, fopen, fpos, line_number, globbed, exit_status,
                   passed, quiet>>

\* SendFail without the raise of line 106: the error is logged and the loop
\* goes on
SendFail_Swallowed(e) ==
    /\ pc = "send"
    /\ sends' = Append(sends, [lp |-> line_protocol, result |-> e])
    /\ logf' = Append(logf, Entry("ERROR", CurlMessage(e), 0, <<>>))
    /\ line' = <<>>
    /\ line_protocol' = ""
    /\ pc' = "read"
    /\ UNCHANGED <<dirVars, current, fopen, fpos, line_number, globbed, exit_status,
                   passed, quiet>>

\* subprocess.run raised e: send logs it and raises, process_line logs it
\* and raises, main exits
SendFail(e) ==
    /\ pc = "send"
    /\ sends' = Append(sends, [lp |-> line_protocol, result |-> e])
    /\ Fatal(e, <<Entry("ERROR", CurlMessage(e), 0, <<>>),
                  Entry("ERROR", "Parse failed | Reason: " \o e, line_number, line)>>)
    /\ UNCHANGED <<dirVars, current, fpos, line_number, line, line_protocol, globbed,
                   passed, quiet>>

Next ==
    \/ \E p \in Files : CreateFile(p)
    \/ \E p \in Files, l \in Lines : AppendLine(p, l)
    \/ \E p \in Files : RemoveFile(p)
    \/ Interrupt
    \/ OpenFile
    \/ Read
    \/ Sleep
    \/ Reread
    \/ Glob
    \/ Rotate
    \/ SendOk
    \/ \E e \in SendFailures : SendFail(e)

Spec == Init /\ [][Next]_vars

SpecBacklog == InitBacklog /\ [][Next]_vars

SpecFind == InitFind /\ [][Next]_vars

SpecParse == InitParse /\ [][Next]_vars

\* the steps of the script itself: while it has not exited it goes on running
ScriptStep ==
    \/ OpenFile
    \/ Read
    \/ Sleep
    \/ Reread
    \/ Glob
    \/ Rotate
    \/ SendOk
    \/ \E e \in SendFailures : SendFail(e)

\* the loop is scheduled fairly; nothing is assumed of the other programs
\* and of the user
SpecLive == Init /\ [][Next]_vars /\ WF_vars(ScriptStep)

(***************************************************************************)
(* Vocabulary of the properties.                                           *)
(***************************************************************************)
\* a candidate line with the expected field count and a timestamp that parses
WellFormed(l) == StartsWithMeasurement(l) /\ Len(l) = expected_len /\ StrptimeOk(l[Len(l)])
\* a candidate line with the expected field count whose timestamp does not parse
Malformed(l) == StartsWithMeasurement(l) /\ Len(l) = expected_len /\ ~StrptimeOk(l[Len(l)])
\* a candidate line with another field count
WrongCount(l) == StartsWithMeasurement(l) /\ Len(l) # expected_len

\* the positions of the log entries with this tag
Tagged(tag) == {k \in DOMAIN logf : logf[k].tag = tag}
\* the position of the last [OPEN] entry, 0 when there is none
LastOpen ==
    IF Tagged("OPEN") = {} THEN 0
    ELSE CHOOSE k \in Tagged("OPEN") : \A j \in Tagged("OPEN") : j <= k
\* the entries logged since the current file was opened
SinceOpen == SubSeq(logf, LastOpen + 1, Len(logf))
IsParsed(e) == e.tag = "PARSED"

\* the [PARSED] entries that the first n lines of c call for
RECURSIVE ParsedOf(_, _)
ParsedOf(c, n) ==
    IF n = 0 THEN <<>>
    ELSE ParsedOf(c, n - 1) \o (IF WellFormed(c[n]) THEN <<Entry("PARSED", "", n, c[n])>> ELSE <<>>)

\* a step of Read or Reread that takes a line from the file
TakesLine == pc \in {"read", "reread"} /\ fpos' = fpos + 1

(***************************************************************************)
(* C1  Ordering / no lost lines.  When process_files opens a file f2,      *)
(* every candidate line present in every listed file f1 with               *)
(* mtime(f1) < mtime(f2) has already been passed to process_line.          *)
(***************************************************************************)
C1_Ordering ==
    [][(pc = "open" /\ pc' = "read") =>
          \A f1 \in Files :
             (listed[f1] /\ mtime[f1] < mtime[current]) =>
                \A i \in 1..Len(content[f1]) :
                   StartsWithMeasurement(content[f1][i]) => <<f1, i>> \in passed]_vars

(***************************************************************************)
(* C2  No duplicate rotation.  No file is opened twice in a run: a file    *)
(* that process_files has switched away from is never opened again.        *)
(***************************************************************************)
C2_NoReopen ==
    \A j, k \in Tagged("OPEN") : j < k => logf[j].msg # logf[k].msg

(***************************************************************************)
(* C3  Transport failure propagation.  A failed send is the last call of   *)
(* the sender in the run and the only one that did not succeed (one        *)
(* attempt, no retry); the failure is logged by Sender.send and by         *)
(* process_line, main logs [FATAL] and exits with status 1, and the cursor *)
(* stays on the failing line: no later line is read, parsed or sent.       *)
(***************************************************************************)
C3_TransportFailure ==
    \A k \in DOMAIN sends :
       sends[k].result \in SendFailures =>
          LET e == sends[k].result
              n == Len(logf)
          IN  /\ k = Len(sends)
              /\ Len(sends) = Cardinality(Tagged("PARSED")) + 1
              /\ pc = "done"
              /\ exit_status = 1
              /\ fpos >= 1
              /\ line_number = fpos
              /\ WellFormed(content[current][fpos])
              /\ sends[k].lp = LineProtocol(content[current][fpos])
              /\ n >= 3
              /\ logf[n - 2] = Entry("ERROR", CurlMessage(e), 0, <<>>)
              /\ logf[n - 1] = Entry("ERROR", "Parse failed | Reason: " \o e, fpos, content[current][fpos])
              /\ logf[n] = Entry("FATAL", e, 0, <<>>)

\* a send has failed after an earlier line was delivered
C3_Witness ==
    /\ Len(sends) >= 2
    /\ sends[Len(sends)].result \in SendFailures
    /\ sends[1].result = "ok"

(***************************************************************************)
(* C4  Fatal malformed timestamp.  A line with the expected field count    *)
(* and an unparseable timestamp that has been read is the last line read:  *)
(* the run has ended with status 1, no send was made for the line, and the *)
(* log ends with an [ERROR] entry that holds the line and its line number  *)
(* followed by the [FATAL] entry.                                          *)
(***************************************************************************)
C4_FatalMalformed ==
    \A i \in 1..fpos :
       Malformed(content[current][i]) =>
          LET n == Len(logf) IN
            /\ i = fpos
            /\ line_number = fpos
            /\ pc = "done"
            /\ exit_status = 1
            /\ Len(sends) = Cardinality(Tagged("PARSED"))
            /\ \A k \in DOMAIN sends : sends[k].result = "ok"
            /\ n >= 2
            /\ logf[n - 1] = Entry("ERROR", "Parse failed | Reason: ValueError", i, content[current][i])
            /\ logf[n] = Entry("FATAL", "ValueError", 0, <<>>)

\* a malformed line was read after a well-formed one had been delivered
C4_Witness ==
    /\ fpos >= 2
    /\ Malformed(content[current][fpos])
    /\ WellFormed(content[current][fpos - 1])
    /\ pc = "done"

C6_RotationLatency ==
    (/\ fopen # NoFile
     /\ listed[fopen]
     /\ \E f2 \in Files : listed[f2] /\ mtime[f2] > mtime[fopen])
    => quiet <= 2

C8_NoSilentDrop ==
    pc # "send" =>
       \A i \in 1..fpos :
          (StartsWithMeasurement(content[current][i]) /\ Len(content[current][i]) = expected_len) =>
             LET outcomes == {k \in DOMAIN SinceOpen :
                                 /\ SinceOpen[k].tag \in {"PARSED", "ERROR"}
                                 /\ SinceOpen[k].n = i}
             IN  /\ Cardinality(outcomes) = 1
                 /\ \A k \in outcomes : SinceOpen[k].tag = "ERROR" => pc = "done"

(***************************************************************************)
(* C9  Non-fatal conditions.  The run never ends because a file is         *)
(* missing: neither because the current or the successor file cannot be    *)
(* opened nor because a listed file has vanished during the scan.          *)
(***************************************************************************)
C9_NonFatal ==
    \A k \in Tagged("FATAL") :
       logf[k].msg \notin {"FileNotFoundError: open", "FileNotFoundError: stat"}

(***************************************************************************)
(* C10  Exit paths.  A run that has ended has ended either by an interrupt *)
(* with an [INFO] entry and status 0, or by a malformed candidate line or  *)
(* a send failure with a [FATAL] entry and status 1.                       *)
(***************************************************************************)
C10_ExitPaths ==
    pc = "done" =>
       LET last == logf[Len(logf)] IN
         \/ exit_status = 0 /\ last.tag = "INFO"
         \/ /\ exit_status = 1
            /\ last.tag = "FATAL"
            /\ last.msg \in {"ValueError"} \cup SendFailures

NanosecondsOf(text) ==
    CASE text = "2025-06-09T21:58:12Z" -> "1749506292000000000"
      [] text = "2024-02-29T23:59:59Z" -> "1709251199000000000"
      [] text = "1970-01-01T00:00:00Z" -> "0"
      [] OTHER -> "?"

TextOf(l) ==
    MEASUREMENT \o ",host=" \o l[2] \o " T1=" \o l[3] \o ",T2=" \o l[4] \o ",T3=" \o l[5]
    \o ",T4=" \o l[6] \o ",Pwr1=" \o l[7] \o ",Pwr2=" \o l[8] \o ",Pwr3=" \o l[9]
    \o ",Pwr4=" \o l[10] \o ",LEDamp=" \o l[11] \o ",LEDwidth=" \o l[12]
    \o ",Threshold=" \o l[13] \o ",V1=" \o l[14] \o ",V2=" \o l[15] \o ",V3=" \o l[16]
    \o ",V4=" \o l[17] \o " " \o NanosecondsOf(l[18])

C12_IdempotentParse ==
    /\ pc = "send" => (line = content[fopen][fpos] /\ line_protocol = TextOf(line))
    /\ \A k \in 1..Len(sends) : \E l \in WellFormedLines : sends[k].lp = TextOf(l)

\* the second line of the start file repeats the first, the first has been
\* sent, and the send of the second is in progress with the same string
C12_Witness ==
    /\ pc = "send"
    /\ fopen = start_file
    /\ line_number = 2
    /\ content[start_file][1] = content[start_file][2]
    /\ Len(sends) = 1
    /\ Len(logf) > 1
    /\ sends[1].lp = line_protocol
    /\ line_protocol = "mydatameasurement,host=host2 T1=20.5,T2=21.5,T3=22.5,T4=23.5,Pwr1=0.1,Pwr2=0.2,Pwr3=0.3,Pwr4=0.4,LEDamp=-7,LEDwidth=1e3,Threshold=55,V1=3.30,V2=3.31,V3=3.32,V4=3.33 1709251199000000000"

(***************************************************************************)
(* C13  Rotation precondition.  The engine lists the directory (and may    *)
(* switch) only after two consecutive reads of the current file, with one  *)
(* wait between them, that both returned end of file: the wait is entered  *)
(* only from a read at end of file and the listing only from a read at end *)
(* of file after the wait; a read after the wait that returns a line which *)
(* is no candidate goes back to Reading without a rotation check.          *)
(***************************************************************************)
C13_RotationPrecondition ==
    [][/\ (pc = "read" /\ pc' = "sleep") => fpos' = fpos
       /\ (pc = "reread" /\ pc' = "scan") => fpos' = fpos
       /\ (pc' = "scan" /\ pc # "scan") => pc = "reread"
       /\ (pc = "reread" /\ TakesLine /\ ~StartsWithMeasurement(content[fopen][fpos + 1]))
             => pc' = "read"]_vars

(***************************************************************************)
(* C14  Non-candidate line in Reading.  A read in Reading that returns a   *)
(* line which does not start with MEASUREMENT discards the line, adds one  *)
(* to the line number and leaves the engine in Reading on the same file:   *)
(* no sleep and no directory listing follows it.  Only a read at end of    *)
(* file leads to the wait.                                                 *)
(***************************************************************************)
C14_NonCandidateStaysReading ==
    [][(pc = "read" /\ TakesLine /\ ~StartsWithMeasurement(content[fopen][fpos + 1]))
          => /\ pc' = "read"
             /\ line_number' = line_number + 1
             /\ fopen' = fopen
             /\ UNCHANGED <<logf, sends, passed>>]_vars

(***************************************************************************)
(* C15  Successor sequence.  As claimed: every rotation moves from a       *)
(* current file that is in the fresh listing to its immediate successor by *)
(* mtime, no listed file between the two being skipped.                    *)
(***************************************************************************)
Between(p, old, new) == mtime[old] < mtime[p] /\ mtime[p] < mtime[new]

C17_SingleHandle ==
    /\ fopen \in {NoFile, current}
    /\ pc = "open" => fopen = NoFile
    /\ pc = "done" => fopen = NoFile
    /\ pc \notin {"open", "done"} => fopen = current

\* a rotation has been made and the successor is not open yet
C17_Witness ==
    /\ pc = "open"
    /\ Tagged("OPEN") # {}
    /\ current # logf[LastOpen].msg
    /\ fopen = NoFile

(***************************************************************************)
(* C18  No busy-poll.  Every pass of the inner loop that forwards no       *)
(* candidate line sleeps once: a first read that forwards nothing goes to  *)
(* the sleep, the sleep to the second read, and only the second read goes  *)
(* on to the directory listing, so every listing has one sleep and one     *)
(* re-read before it in its pass and two listings always have a sleep      *)
(* between them.                                                           *)
(***************************************************************************)
C18_NoBusyPoll ==
    [][/\ (pc = "read" /\ pc' \notin {"send", "read", "done"}) => pc' = "sleep"
       /\ (pc = "read" /\ pc' = "read" /\ UNCHANGED dirVars) => TakesLine
       /\ (pc' = "sleep" /\ pc # "sleep") => pc = "read"
       /\ (pc = "sleep" /\ pc' # "done") => (pc' = "reread" \/ pc' = "sleep")
       /\ (pc' = "reread" /\ pc # "reread") => pc = "sleep"
       /\ (pc' = "scan" /\ pc # "scan") => pc = "reread"
       /\ (pc' = "sort" /\ pc # "sort") => pc = "scan"
       /\ (pc = "sort" /\ pc' # "sort") => pc' \in {"open", "read", "done"}
       /\ (pc = "open" /\ pc' # "open") => pc' \in {"read", "done"}
       /\ (pc = "send" /\ pc' # "send") => pc' \in {"read", "done"}]_vars

\* the directory is listed a second time in a quiet directory, two sleeps
\* after it last changed
C18_Witness ==
    /\ pc = "scan"
    /\ quiet >= 2
    /\ sends = <<>>

(***************************************************************************)
(* C16  Never gives up.  Under a fairly scheduled loop, and short of a     *)
(* fatal error or an interrupt (pc = "done"): the rotation check is always *)
(* followed by another wait, a forwarded line or a newly opened file; a    *)
(* candidate line that stands unread in the file the engine has open is    *)
(* eventually passed to process_line; and a listed file newer than the     *)
(* listed current file is eventually opened, unless it stops being newer   *)
(* or listed.                                                              *)
(***************************************************************************)
MaxLines == MaxInit + MaxEvents

UnreadCandidate(f, i) ==
    /\ fopen = f
    /\ fpos < i
    /\ i <= Len(content[f])
    /\ StartsWithMeasurement(content[f][i])

HasNewer(p) ==
    /\ fopen = current
    /\ listed[current]
    /\ listed[p]
    /\ mtime[current] < mtime[p]

C16_NeverGivesUp ==
    /\ (pc = "scan") ~> (pc \in {"sleep", "send", "open", "done"})
    /\ \A f \in Files : \A i \in 1..MaxLines :
          UnreadCandidate(f, i) ~> (<<f, i>> \in passed \/ pc = "done")
    /\ \A p \in Files :
          HasNewer(p) ~> (fopen = p \/ pc = "done" \/ ~HasNewer(p))

====
